---- MODULE Spec2Model ----
(***************************************************************************)
(* A model of the OOXML viewer: the container file on disk, the in-memory  *)
(* JSZip archive (this.zip), the cache folder with its three generations   *)
(* per part (<name>, prev.<name>, compare.<name>), the FileNode tree, and  *)
(* the handlers of OOXMLViewer that keep them in step.                     *)
(***************************************************************************)
EXTENDS Integers, Sequences, FiniteSets, TLC

VARIABLES
  container,        \* the OOXML file on disk, decoded: entry path -> bytes
  zip,              \* this.zip: the JSZip in memory (entry path -> bytes)
  fs,               \* the cache folder: cache file -> bytes
  tree,             \* treeDataProvider.rootFileNode and its descendants
  watchers,         \* number of watcher triples in OOXMLViewer.watchers
  openTextEditors,  \* OOXMLViewer.openTextEditors: the parts shown in a tab
  stale,            \* TRUE when the container was written since the last load
  faults,           \* whether removing the cache folder may fail in this run
  extMods,          \* external modifications made so far (bounded)
  saves,            \* cache-file saves made so far (bounded)
  last,             \* the last handler that ran, with what it saw (history)
  fileWatcher,      \* the class whose container watcher is registered
  pending,          \* change notifications of the container not yet delivered
  reloads,          \* the calls of the container watcher's handler in flight
  saving,           \* the call of the save handler in flight
  locked,           \* OOXMLPackageFileWatcher's locked
  watchActions,     \* OOXMLViewer.watchActions: file -> mtime last processed
  broken,           \* the cache files on which file I/O fails in this run
  resetting,        \* where the call of _resetOOXMLViewer in flight stands
  outside,          \* a file outside the cache folder and the files next to it
  callbacks         \* the callbacks of _removeDeletedParts awaiting their read

vars == <<container, zip, fs, tree, watchers, openTextEditors,
          stale, faults, extMods, saves, last,
          fileWatcher, pending, reloads, saving, locked,
          watchActions, broken, resetting, outside, callbacks>>

(* What the steps of the handlers in flight leave alone. *)
aside == <<broken, resetting, outside, callbacks>>

(* What the handlers that run to their end in one step leave alone. *)
handlers == <<fileWatcher, pending, reloads, saving, locked, watchActions,
              broken, resetting, outside, callbacks>>

-----------------------------------------------------------------------------
(* Bounds of the model. *)
MaxExtMods == 1
MaxSaves == 1
MaxWatchers == 2
MaxEditors == 1
MaxReloads == 2
MaxNotifications == 2
MaxTime == 2
MaxRewrites == 2

-----------------------------------------------------------------------------
(* Bytes.  A byte string is a sequence of tokens.  "<?xml" is the XML      *)
(* prolog, "a" and "b" are markup, "ws" is the white space xml-formatter   *)
(* puts between markup, "BIG" is a run of 100000 characters of markup,     *)
(* "b1" and "b2" are bytes of a binary part.                               *)
(* Absent (no such file or entry) and DirEntry (a folder entry) are not   *)
(* byte strings.                                                           *)
Absent == <<"ABSENT">>
DirEntry == <<"DIR">>
Empty == <<>>
XA == <<"<?xml", "a">>
XB == <<"<?xml", "b">>
XBig == <<"<?xml", "BIG">>
B1 == <<"b1">>
B2 == <<"b2">>

IsBytes(c) == c # Absent /\ c # DirEntry

FormatSizeLimit == 100000

TokenSize(t) == IF t = "BIG" THEN 100000 ELSE 1

RECURSIVE TextLength(_)
TextLength(text) ==
  IF text = <<>> THEN 0 ELSE TokenSize(Head(text)) + TextLength(Tail(text))

startsWithXml(text) == Len(text) > 0 /\ text[1] = "<?xml"

RECURSIVE Indent(_)
Indent(s) ==
  IF Len(s) <= 1 THEN s ELSE <<Head(s), "ws">> \o Indent(Tail(s))

formatXml(text) == Indent(SelectSeq(text, LAMBDA t : t # "ws"))


-----------------------------------------------------------------------------
(* Entry paths.  A path is the sequence of its names, as split('/') gives:  *)
(* the directory entry "a/" is <<"a", "">>.  KeyOrder is the order of the  *)
(* keys of zip.files.                                                      *)
PDir == <<"a", "">>
PX == <<"a", "x">>
PY == <<"a", "y">>
PZ == <<"z">>
POut == <<"w", "o">>
KeyOrder == <<PDir, PX, PY, PZ>>
FileKeys == {PX, PY, PZ}
EntryKeys == {PDir, PX, PY, PZ, POut}

Range(s) == {s[i] : i \in DOMAIN s}
dirname(p) == SubSeq(p, 1, Len(p) - 1)
basename(p) == p[Len(p)]

(* A file of the cache folder: <<folder, prefix, name>>, the prefix being  *)
(* <<>>, <<"prev">> or <<"compare">> for <name>, prev.<name>,              *)
(* compare.<name>.                                                         *)
NoPre == <<>>
Prev == <<"prev">>
Compare == <<"compare">>
CacheFiles ==
  {<<d, pre, b>> : d \in {<<>>, <<"a">>}, pre \in {NoPre, Prev, Compare},
                   b \in {"a", "x", "y", "z"}}

(* join(fileCachePath, fullPath) for an entry path. *)
CachePath(fullPath) == <<dirname(fullPath), NoPre, basename(fullPath)>>

(* parse(path), then format with base prev.<base>. *)
getPrevFilePath(path) == <<path[1], Prev \o path[2], path[3]>>

(* existsSync / a successful stat. *)
exists(f, path) == path \in DOMAIN f /\ f[path] # Absent

(* this.zip.file(fullPath): the entry, or null for none and for a folder. *)
zipFile(z, path) ==
  LET key == Append(path[1], path[3])
  IN IF path[2] = NoPre /\ key \in DOMAIN z /\ IsBytes(z[key])
       THEN z[key] ELSE Absent

(* The names Object.keys(zip.files) holds. *)
fileNames(z) == {k \in DOMAIN z : z[k] # Absent}

(* Lines 315-317: formatXml for a text under the limit, else ''. *)
formattedXml(text) ==
  IF TextLength(text) < FormatSizeLimit THEN formatXml(text) ELSE <<>>

(* A variant of lines 313-325 whose writes never throw. *)
writeFileUnchecked(f, filePath, file, text, formatted) ==
  IF startsWithXml(text)
    THEN [f EXCEPT ![filePath] = IF formatted # <<>> THEN formatted ELSE text]
  ELSE IF file # Absent THEN [f EXCEPT ![filePath] = file]
  ELSE f

(* Lines 313-328: XML text is written formatted (or as it is when there is *)
(* no formatted text); anything else is written from the zip entry, and    *)
(* not at all without one.  The write of a file in broken throws, and the  *)
(* catch of _createFile logs the error and returns.                        *)
writeFile(f, filePath, file, text, formatted) ==
  IF filePath \in broken THEN f
  ELSE IF startsWithXml(text)
    THEN [f EXCEPT ![filePath] = IF formatted # <<>> THEN formatted ELSE text]
  ELSE IF file # Absent THEN [f EXCEPT ![filePath] = file]
  ELSE f

(* Lines 311-312: the text of the zip entry, or else of the cache file at  *)
(* fullPath; a read that fails throws, and the catch writes nothing.       *)
writeFrom(f, filePath, fullPath, file) ==
  IF file # Absent THEN writeFile(f, filePath, file, file, formattedXml(file))
  ELSE IF exists(f, fullPath)
    THEN writeFile(f, filePath, file, f[fullPath], formattedXml(f[fullPath]))
  ELSE f

(* Lines 299-329: _createFile(fullPath, fileName) writes the part, or else *)
(* the cache file at fullPath, to <folder of fullPath>/<fileName>.         *)
createFile(f, z, fullPath, fileName) ==
  writeFrom(f, <<fullPath[1], fileName[1], fileName[2]>>, fullPath,
            zipFile(z, fullPath))

(* A variant of _fileHasBeenChangedFromOutside that leaves out the         *)
(* comparison of the bytes.                                                *)
fileHasBeenStatted(f, firstFile) ==
  /\ exists(f, CachePath(firstFile))
  /\ exists(f, getPrevFilePath(CachePath(firstFile)))

(* A file that stats and whose read throws. *)
Unreadable == <<"EACCES">>

(* A variant of _fileHasBeenChangedFromOutside that leaves out the test of *)
(* the file types of line 521.                                             *)
fileHasBeenChangedAnyType(f, firstFile) ==
  /\ exists(f, CachePath(firstFile))
  /\ exists(f, getPrevFilePath(CachePath(firstFile)))
  /\ f[CachePath(firstFile)] # Unreadable
  /\ f[getPrevFilePath(CachePath(firstFile))] # Unreadable
  /\ f[CachePath(firstFile)] # f[getPrevFilePath(CachePath(firstFile))]

(* _fileHasBeenChangedFromOutside(firstFile): the cache file and its prev. *)
(* file both stat, neither is a directory (line 521), both are read and    *)
(* their bytes differ; FALSE on any failure, which the catch logs.         *)
fileHasBeenChangedFromOutside(f, firstFile) ==
  LET firstFilePath == CachePath(firstFile)
      secondFilePath == getPrevFilePath(CachePath(firstFile))
  IN /\ exists(f, firstFilePath)
     /\ exists(f, secondFilePath)
     /\ f[firstFilePath] # DirEntry /\ f[secondFilePath] # DirEntry
     /\ f[firstFilePath] # Unreadable /\ f[secondFilePath] # Unreadable
     /\ f[firstFilePath] # f[secondFilePath]

-----------------------------------------------------------------------------
(* The FileNode tree.  A node is named by the names on the way to it from  *)
(* the root, which is <<>>; children is the parent's array of child names. *)
NodeKeys == {<<>>, <<"a">>, PX, PY, PZ}
NoNode == [present |-> FALSE, fullPath |-> <<>>, iconPath |-> "unset",
           children |-> <<>>]
NewFileNode == [NoNode EXCEPT !.present = TRUE]
EmptyTree == [k \in NodeKeys |-> IF k = <<>> THEN NewFileNode ELSE NoNode]

(* FileNode.description is the node's fileName. *)
description(key) == basename(key)

(* A variant of the find that finds no child. *)
hasNoChild(t, cur, name) == FALSE

(* children.find(c => c.description === name) *)
hasChild(t, cur, name) ==
  \E i \in DOMAIN t[cur].children : t[cur].children[i] = name

(* Lines 241-251: with the node's cache file written (fs f1), a node whose *)
(* file differs from its prev. file gets the warning icon, its prev. file  *)
(* copied to its compare. file and the part written to its prev. file.     *)
markExisting(st, z, key, fullPath, fileName, f1) ==
  IF fileHasBeenChangedFromOutside(f1, fullPath)
    THEN [tree |-> [st.tree EXCEPT ![key].iconPath = "asterisk.yellow"],
          fs |-> createFile(
                   createFile(f1, z, getPrevFilePath(CachePath(fullPath)),
                              <<Compare, fileName>>),
                   z, CachePath(fullPath), <<Prev, fileName>>)]
    ELSE [tree |-> [st.tree EXCEPT ![key].iconPath =
                      IF st.tree[key].children # <<>> THEN "Folder"
                      ELSE "File"],
          fs |-> f1]

(* Lines 236-251: the name is a child of the current node. *)
visitExisting(st, z, key) ==
  markExisting(st, z, key, st.tree[key].fullPath, description(key),
               createFile(st.fs, z, CachePath(st.tree[key].fullPath),
                          <<NoPre, description(key)>>))

(* A variant of markNew that writes the empty compare. file on the first   *)
(* load as well.                                                           *)
markNewEmptyCompare(t1, f2, z, key, fileWithPath, fileName, showNewFileLabel) ==
  [tree |-> IF showNewFileLabel
              THEN [t1 EXCEPT ![key].iconPath = "asterisk.green"] ELSE t1,
   fs |-> [f2 EXCEPT ![<<dirname(fileWithPath), Compare, fileName>>] = Empty]]

(* Lines 263-277: with the new node in the tree (t1) and its file and      *)
(* prev. file written (fs f2): on a refresh the green icon and an empty    *)
(* compare. file, on the first load a compare. file written from the part. *)
markNew(t1, f2, z, key, fileWithPath, fileName, showNewFileLabel) ==
  IF showNewFileLabel
    THEN [tree |-> [t1 EXCEPT ![key].iconPath = "asterisk.green"],
          fs |-> [f2 EXCEPT
                    ![<<dirname(fileWithPath), Compare, fileName>>] = Empty]]
    ELSE [tree |-> t1,
          fs |-> createFile(f2, z, CachePath(fileWithPath),
                            <<Compare, fileName>>)]

(* A variant of visitNew that leaves out the prev. copy of line 262. *)
visitNewNoPrev(st, z, cur, key, fileWithPath, showNewFileLabel) ==
  markNew([st.tree EXCEPT
             ![cur].children = Append(@, description(key)),
             ![key] = [NewFileNode EXCEPT !.fullPath = fileWithPath]],
          createFile(st.fs, z, CachePath(fileWithPath),
                     <<NoPre, description(key)>>),
          z, key, fileWithPath, description(key), showNewFileLabel)

(* Lines 252-278: the name is new under the current node. *)
visitNew(st, z, cur, key, fileWithPath, showNewFileLabel) ==
  markNew([st.tree EXCEPT
             ![cur].children = Append(@, description(key)),
             ![key] = [NewFileNode EXCEPT !.fullPath = fileWithPath]],
          createFile(
            createFile(st.fs, z, CachePath(fileWithPath),
                       <<NoPre, description(key)>>),
            z, CachePath(fileWithPath), <<Prev, description(key)>>),
          z, key, fileWithPath, description(key), showNewFileLabel)

(* Lines 232-281: the nodes of one entry, from name i on. *)
RECURSIVE buildNodes(_, _, _, _, _, _)
buildNodes(st, z, fileWithPath, i, cur, showNewFileLabel) ==
  IF i > Len(fileWithPath)
    THEN [st EXCEPT !.tree[cur].fullPath = fileWithPath]
    ELSE buildNodes(
           IF hasChild(st.tree, cur, fileWithPath[i])
             THEN visitExisting(st, z, Append(cur, fileWithPath[i]))
             ELSE visitNew(st, z, cur, Append(cur, fileWithPath[i]),
                           fileWithPath, showNewFileLabel),
           z, fileWithPath, i + 1, Append(cur, fileWithPath[i]),
           showNewFileLabel)

(* Lines 224-282: the loop over the keys of files, from key k on; folder   *)
(* entries are skipped.                                                    *)
RECURSIVE forEachFile(_, _, _, _, _)
forEachFile(st, z, files, k, showNewFileLabel) ==
  IF k > Len(KeyOrder) THEN st
  ELSE forEachFile(
         IF files[KeyOrder[k]] = Absent \/ files[KeyOrder[k]] = DirEntry
           THEN st
           ELSE buildNodes(st, z, KeyOrder[k], 1, <<>>, showNewFileLabel),
         z, files, k + 1, showNewFileLabel)

(* Lines 482-505: the callbacks _removeDeletedParts starts, in the order   *)
(* forEach starts them.  A child whose fullPath is no key of the zip gets  *)
(* a callback; for a child that is one, the walk goes on under each of ITS *)
(* children.  A callback is [arr, i, n]: the array it will splice, the     *)
(* index forEach gave it (from 1) and its node.                            *)
RECURSIVE removeDeletedParts(_, _, _)
RECURSIVE forEachChild(_, _, _, _)
RECURSIVE forEachGrandChild(_, _, _, _)

forEachGrandChild(t, z, n, j) ==
  IF j > Len(t[n].children) THEN <<>>
  ELSE removeDeletedParts(t, z, Append(n, t[n].children[j]))
         \o forEachGrandChild(t, z, n, j + 1)

forEachChild(t, z, node, i) ==
  IF i > Len(t[node].children) THEN <<>>
  ELSE (IF t[Append(node, t[node].children[i])].fullPath \notin fileNames(z)
          THEN <<[arr |-> node, i |-> i,
                  n |-> Append(node, t[node].children[i])]>>
          ELSE forEachGrandChild(t, z, Append(node, t[node].children[i]), 1))
         \o forEachChild(t, z, node, i + 1)

removeDeletedParts(t, z, node) ==
  IF node \in NodeKeys THEN forEachChild(t, z, node, 1) ELSE <<>>

(* arr.splice(i, 1) *)
splice(arr, i) ==
  IF i > Len(arr) THEN arr
  ELSE SubSeq(arr, 1, i - 1) \o SubSeq(arr, i + 1, Len(arr))

(* Lines 494-498: the cache file at path is empty: it is deleted with its  *)
(* prev. and compare. files and the node spliced out of its array.  A      *)
(* delete of a file that is not there, or of one in broken, throws and     *)
(* ends the callback.                                                      *)
deleteFiles(st, c, path, prevPath, comparePath) ==
  IF path \in broken THEN st
  ELSE IF ~exists(st.fs, prevPath) \/ prevPath \in broken
    THEN [st EXCEPT !.fs[path] = Absent]
  ELSE IF ~exists(st.fs, comparePath)
    THEN [st EXCEPT !.fs[path] = Absent, !.fs[prevPath] = Absent]
  ELSE [tree |-> [st.tree EXCEPT ![c.arr].children = splice(@, c.i)],
        fs |-> [st.fs EXCEPT ![path] = Absent, ![prevPath] = Absent,
                             ![comparePath] = Absent]]

(* Lines 490-499: one callback, once its read of the cache file returns:   *)
(* a file with content is emptied and the node marked, an empty one is     *)
(* deleted.  A read of a file that is not there throws, and so does the    *)
(* write of a file in broken, after the node is marked.                    *)
readPart(st, c, path) ==
  IF ~exists(st.fs, path) THEN st
  ELSE IF st.fs[path] # Empty
    THEN [tree |-> [st.tree EXCEPT ![c.n].iconPath = "asterisk.red"],
          fs |-> IF path \in broken THEN st.fs
                 ELSE [st.fs EXCEPT ![path] = Empty]]
  ELSE deleteFiles(st, c, path, <<path[1], Prev, path[3]>>,
                   <<path[1], Compare, path[3]>>)

deletedPartCallback(st, c) ==
  readPart(st, c, CachePath(st.tree[c.n].fullPath))

RECURSIVE runCallbacks(_, _)
runCallbacks(st, cs) ==
  IF cs = <<>> THEN st
  ELSE runCallbacks(deletedPartCallback(st, Head(cs)), Tail(cs))

(* A node no array of children leads to any more is garbage. *)
RECURSIVE reachable(_, _)
reachable(t, key) ==
  \/ key = <<>>
  \/ /\ reachable(t, dirname(key))
     /\ hasChild(t, dirname(key), basename(key))

collect(t) == [k \in NodeKeys |-> IF reachable(t, k) THEN t[k] ELSE NoNode]

(* Lines 283-286: after the walk, on a refresh, the deleted parts. *)
afterWalk(walked, z, showNewFileLabel) ==
  IF showNewFileLabel
    THEN runCallbacks(walked, removeDeletedParts(walked.tree, z, <<>>))
    ELSE walked

dropGarbage(st) == [tree |-> collect(st.tree), fs |-> st.fs]

(* Lines 223-289: _populateOOXMLViewer(files, showNewFileLabel). *)
populateOOXMLViewer(st, z, files, showNewFileLabel) ==
  dropGarbage(afterWalk(forEachFile(st, z, files, 1, showNewFileLabel),
                        z, showNewFileLabel))

-----------------------------------------------------------------------------
(* What the environment may put in the container and save in a cache file. *)
EntryContents(k) ==
  IF k = PX THEN {XA, XBig, Absent}
  ELSE IF k = PY THEN {B1, B2, Absent}
  ELSE IF k = PZ THEN {XA, Empty, Absent}
  ELSE {DirEntry, Absent}

InitContainers ==
  {c \in [EntryKeys -> {XA, B1, Empty, DirEntry, Absent}] :
     /\ c[PX] = XA
     /\ c[PY] = B1
     /\ c[PZ] = XA
     /\ c[PDir] \in {DirEntry, Absent}
     /\ c[POut] = Absent}

SavedBytes(k) == IF k = PY THEN {B1, B2} ELSE {formatXml(XA), XB}

EmptyZip == [k \in EntryKeys |-> Absent]
NoCache == [p \in CacheFiles |-> Absent]

(* No call of the save handler is in flight. *)
NoSave == [pc |-> "idle", part |-> <<>>, cur |-> Absent, prev |-> Absent,
           zipFile |-> EmptyZip]

(* window.activeTextEditor is undefined: no text editor is open. *)
NoEditor == <<"undefined">>

(* The record of the last handler: its name, the part it was about, how it *)
(* ended, and for a save the mtime it saw, whether it showed the warning,  *)
(* the active text editor it read and the editor it made dirty.            *)
Did(op, part, out) ==
  [op |-> op, part |-> part, out |-> out, time |-> 0, warning |-> FALSE,
   active |-> NoEditor, dirty |-> NoEditor]

(* No file outside the cache folder. *)
NoOutside == [pre \in {NoPre, Prev, Compare} |-> Absent]

(* The viewer as constructed: nothing loaded, no cache folder, no watcher. *)
InitViewer ==
  /\ zip = EmptyZip
  /\ fs = NoCache
  /\ tree = EmptyTree
  /\ watchers = 0
  /\ openTextEditors = {}
  /\ stale = FALSE
  /\ extMods = 0
  /\ saves = 0
  /\ last = Did("new", <<>>, "ok")
  /\ pending = 0
  /\ reloads = <<>>
  /\ saving = NoSave
  /\ locked = FALSE
  /\ watchActions = [k \in FileKeys \cup {POut} |-> 0]
  /\ resetting = "idle"
  /\ callbacks = <<>>

InitState == container \in InitContainers /\ InitViewer

Init ==
  /\ InitState
  /\ faults = FALSE
  /\ fileWatcher = "OOXMLViewer"
  /\ broken = {}
  /\ outside = NoOutside

-----------------------------------------------------------------------------
(* A variant of _resetOOXMLViewer that replaces the zip and the tree once  *)
(* the cache folder is removed, and so not when that fails.                *)
resetAfterPurge(rimrafFails) ==
  /\ zip' = IF rimrafFails THEN zip ELSE EmptyZip
  /\ tree' = IF rimrafFails THEN tree ELSE EmptyTree
  /\ fs' = IF rimrafFails THEN fs ELSE NoCache
  /\ watchers' = IF rimrafFails THEN watchers ELSE 0

(* Lines 200-214: _resetOOXMLViewer.  The zip and the tree are replaced;   *)
(* the cache folder is removed, and when that fails the catch skips        *)
(* closeWatchers and _closeEditors.                                        *)
resetOOXMLViewer(rimrafFails) ==
  /\ zip' = EmptyZip
  /\ tree' = EmptyTree
  /\ fs' = IF rimrafFails THEN fs ELSE NoCache
  /\ watchers' = IF rimrafFails THEN watchers ELSE 0

(* rimraf can fail only on a cache folder that is there. *)
canFail(rimrafFails) ==
  rimrafFails => /\ faults
                 /\ \E p \in CacheFiles : exists(fs, p)
                 /\ watchers < MaxWatchers

(* Lines 71-87: the container is read and loaded into the zip, the viewer  *)
(* populated (st) and the three watchers registered.                       *)
loaded(st, keptWatchers) ==
  /\ zip' = container
  /\ tree' = st.tree
  /\ fs' = st.fs
  /\ watchers' = keptWatchers + 1
  /\ stale' = FALSE

(* Lines 60-94: viewContents.  Reset, read and load the container,         *)
(* populate without new-file labels, register the watchers.  A read that   *)
(* fails leaves the viewer reset and registers nothing.                    *)
viewContents(rimrafFails, readFails) ==
  /\ canFail(rimrafFails)
  /\ IF readFails
       THEN /\ resetOOXMLViewer(rimrafFails)
            /\ UNCHANGED stale
       ELSE loaded(populateOOXMLViewer(
                     [tree |-> EmptyTree,
                      fs |-> IF rimrafFails THEN fs ELSE NoCache],
                     container, container, FALSE),
                   IF rimrafFails THEN watchers ELSE 0)
  /\ last' = Did("viewContents", <<>>,
               IF readFails THEN "unread"
               ELSE IF rimrafFails THEN "unpurged" ELSE "ok")
  /\ UNCHANGED <<container, openTextEditors, faults, extMods, saves>>
  /\ UNCHANGED handlers

(* Lines 122-124: clear. *)
clear(rimrafFails) ==
  /\ canFail(rimrafFails)
  /\ resetOOXMLViewer(rimrafFails)
  /\ last' = Did("clear", <<>>, IF rimrafFails THEN "unpurged" ELSE "ok")
  /\ UNCHANGED <<container, openTextEditors, stale, faults, extMods, saves>>
  /\ UNCHANGED handlers

(* Another program rewrites the container with one entry changed, added    *)
(* or removed.                                                             *)
modified(k, c) ==
  /\ extMods < MaxExtMods
  /\ c \in EntryContents(k)
  /\ c # container[k]
  /\ container' = [container EXCEPT ![k] = c]
  /\ stale' = TRUE
  /\ extMods' = extMods + 1
  /\ last' = Did("modify", <<>>, "ok")
  /\ UNCHANGED <<zip, fs, tree, watchers, openTextEditors, faults, saves>>

ExternalModify(k, c) == modified(k, c) /\ UNCHANGED handlers

(* Lines 103-115: viewFile, for a leaf of the tree. *)
viewFile(p) ==
  /\ tree[p].present
  /\ tree[p].children = <<>>
  /\ Cardinality(openTextEditors \cup {p}) <= MaxEditors
  /\ fs' = createFile(fs, zip, CachePath(tree[p].fullPath),
                      <<NoPre, description(p)>>)
  /\ openTextEditors' = openTextEditors \cup {p}
  /\ last' = Did("viewFile", <<>>, "ok")
  /\ UNCHANGED <<container, zip, tree, watchers, stale, faults, extMods, saves>>
  /\ UNCHANGED handlers

(* Lines 84-86: the handler of onDidCloseTextDocument. *)
closeTextDocument(p) ==
  /\ watchers > 0
  /\ p \in openTextEditors
  /\ openTextEditors' = openTextEditors \ {p}
  /\ last' = Did("close", <<>>, "ok")
  /\ UNCHANGED <<container, zip, fs, tree, watchers, stale, faults, extMods, saves>>
  /\ UNCHANGED handlers

(* Lines 156-166: _viewFiles over the open text editors. *)
RECURSIVE viewFiles(_, _, _)
viewFiles(f, z, fileNodes) ==
  IF fileNodes = {} THEN f
  ELSE viewFiles(
         IF exists(f, CachePath(CHOOSE q \in fileNodes : TRUE))
           THEN createFile(f, z, CachePath(CHOOSE q \in fileNodes : TRUE),
                           <<NoPre, description(CHOOSE q \in fileNodes : TRUE)>>)
           ELSE f,
         z, fileNodes \ {CHOOSE q \in fileNodes : TRUE})

(* Lines 465-470: the zip is replaced by the container as read, the viewer *)
(* populated with new-file labels (st), the open parts shown again.        *)
reloaded(st) ==
  /\ zip' = container
  /\ tree' = st.tree
  /\ fs' = viewFiles(st.fs, container, openTextEditors)
  /\ stale' = FALSE

(* A variant of lines 465-468 that assigns the new JSZip to this.zip       *)
(* before the container is read into it.                                   *)
zipAssignedFirst(z) == EmptyZip

(* Lines 465-468 with a readFile or loadAsync that throws: the new JSZip   *)
(* is a local, and this.zip is assigned after both awaits only.            *)
zipUnread(z) == z

(* Lines 457-473: _reloadOoxmlFile, the handler of the container watcher.  *)
(* A read that fails throws before this.zip is replaced.                   *)
reloadOoxmlFile(readFails) ==
  /\ watchers > 0
  /\ IF readFails
       THEN zip' = zipUnread(zip) /\ UNCHANGED <<tree, fs, stale>>
       ELSE reloaded(populateOOXMLViewer([tree |-> tree, fs |-> fs],
                                         container, container, TRUE))
  /\ last' = Did("reload", <<>>, IF readFails THEN "unread" ELSE "ok")
  /\ UNCHANGED <<container, watchers, openTextEditors, faults, extMods, saves>>
  /\ UNCHANGED handlers

(* A variant of line 358 that writes a new archive holding only the part.  *)
zipSetFileAlone(z, p, data) == [k \in DOMAIN z |-> IF k = p THEN data ELSE Absent]

(* this.zip.file(normalizedPath, data): the entry is set, and JSZip adds   *)
(* the folder entry of its path when the zip has none.                     *)
zipSetFile(z, p, data) ==
  LET z1 == [z EXCEPT ![p] = data]
  IN IF Len(p) > 1 THEN [z1 EXCEPT ![Append(dirname(p), "")] = DirEntry]
     ELSE z1

(* A variant of line 354 that compares the two Buffer objects by identity. *)
dataIdentical(data, prevData) == FALSE

(* Line 354: data.equals(prevData) *)
dataEquals(data, prevData) == data = prevData

(* A variant of lines 360-361 that copies the prev. file to the compare.   *)
(* file after it has overwritten the prev. file.                           *)
writeGenerationsPrevFirst(f, comparePath, prevFilePath, cur, prev) ==
  [f EXCEPT ![prevFilePath] = cur, ![comparePath] = cur]

(* Lines 360-361: the bytes read from the prev. file go to the compare.    *)
(* file, the bytes read from the saved file to the prev. file.             *)
writeGenerations(f, comparePath, prevFilePath, cur, prev) ==
  [f EXCEPT ![comparePath] = prev, ![prevFilePath] = cur]

(* A variant of line 348 that lets only a later time through. *)
timeAdvanced(recorded, time) == time > recorded

(* Line 348: OOXMLViewer.watchActions[fileName] !== time *)
timeChanged(recorded, time) == recorded # time

(* A variant of lines 359-361 that has written the compare. file and the   *)
(* prev. file by the time the write of the container throws.               *)
thrownAfterGenerations(f, comparePath, prevFilePath, cur, prev) ==
  [f EXCEPT ![comparePath] = prev, ![prevFilePath] = cur]

(* Lines 359-361: the write of the container throws, and the writes of the *)
(* compare. file and the prev. file after it are not reached.              *)
thrownAtContainer(f, comparePath, prevFilePath, cur, prev) == f

(* Lines 384-424: _makeDirty edits the document of the editor it is given, *)
(* and does nothing when it is given none.  What it returns here is the    *)
(* editor whose tab has become dirty.                                      *)
makeDirty(activeTextEditor) == activeTextEditor

(* Lines 364-372: the catch of _updateOOXMLFile; on EBUSY the warning is   *)
(* shown and _makeDirty is called with window.activeTextEditor, whichever  *)
(* document the notification was about.                                    *)
caught(did, code, activeTextEditor) ==
  [did EXCEPT !.warning = (code = "EBUSY"),
              !.active = activeTextEditor,
              !.dirty = IF code = "EBUSY" THEN makeDirty(activeTextEditor)
                        ELSE NoEditor]

(* What window.activeTextEditor can be when the document of part p is      *)
(* saved: the editor of p, the editor of another document (Save All, auto  *)
(* save), or none.                                                         *)
ActiveTextEditors(p) == {NoEditor, p, PZ}

(* The record of a save of part p at mtime time that ended with out. *)
DidSave(p, time, out) == [Did("save", p, out) EXCEPT !.time = time]

(* A variant of line 345 that tests the saved file only. *)
fileExists(f, fileName, prevFilePath) == exists(f, fileName)

(* Line 345: existsSync(fileName) && existsSync(prevFilePath). *)
bothExist(f, fileName, prevFilePath) ==
  exists(f, fileName) /\ exists(f, prevFilePath)

(* Lines 338-375: _updateOOXMLFile, the handler of onDidSaveTextDocument,  *)
(* for a part's cache file the editor has just written with bytes, and     *)
(* whose stat gives the mtime time.  When the file and its prev. file are  *)
(* there, the mtime is not the one recorded for the file and the bytes     *)
(* differ, the bytes go into the zip, the zip is written over the          *)
(* container, the old prev. bytes go to the compare. file and the new      *)
(* bytes to the prev. file.  busy: the write of the container fails with   *)
(* EBUSY, and the catch warns and makes the active editor dirty.           *)
updateOOXMLFile(p, bytes, time, busy, active) ==
  LET fileName == CachePath(p)
      prevFilePath == getPrevFilePath(fileName)
      comparePath == <<prevFilePath[1], Compare, fileName[3]>>
      saved == [fs EXCEPT ![fileName] = bytes]
      cur == saved[fileName]
      prev == saved[prevFilePath]
  IN /\ watchers > 0
     /\ saves' = saves + 1
     /\ IF ~bothExist(saved, fileName, prevFilePath)
          THEN /\ busy = FALSE
               /\ fs' = saved
               /\ last' = DidSave(p, time, "noprev")
               /\ UNCHANGED <<zip, container, stale, watchActions>>
        ELSE IF ~timeChanged(watchActions[p], time)
          THEN /\ busy = FALSE
               /\ fs' = saved
               /\ last' = DidSave(p, time, "debounced")
               /\ UNCHANGED <<zip, container, stale, watchActions>>
        ELSE IF dataEquals(cur, prev)
          THEN /\ busy = FALSE
               /\ fs' = saved
               /\ watchActions' = [watchActions EXCEPT ![p] = time]
               /\ last' = DidSave(p, time, "same")
               /\ UNCHANGED <<zip, container, stale>>
        ELSE IF busy
          THEN /\ zip' = zipSetFile(zip, p, cur)
               /\ fs' = thrownAtContainer(saved, comparePath, prevFilePath,
                                          cur, prev)
               /\ watchActions' = [watchActions EXCEPT ![p] = time]
               /\ last' = caught(DidSave(p, time, "busy"), "EBUSY", active)
               /\ UNCHANGED <<container, stale>>
        ELSE /\ zip' = zipSetFile(zip, p, cur)
             /\ container' = zipSetFile(zip, p, cur)
             /\ fs' = writeGenerations(saved, comparePath, prevFilePath,
                                      cur, prev)
             /\ watchActions' = [watchActions EXCEPT ![p] = time]
             /\ stale' = TRUE
             /\ last' = DidSave(p, time, "written")
     /\ UNCHANGED <<tree, watchers, openTextEditors, faults, extMods>>
     /\ UNCHANGED <<fileWatcher, pending, reloads, saving, locked, aside>>

(* The reconciler and the edit writer: open, clear, external change,       *)
(* reload, save.                                                           *)
NextSync ==
  \/ \E rimrafFails \in BOOLEAN, readFails \in BOOLEAN :
       viewContents(rimrafFails, readFails)
  \/ \E rimrafFails \in BOOLEAN : clear(rimrafFails)
  \/ \E k \in FileKeys : \E c \in EntryContents(k) : ExternalModify(k, c)
  \/ \E readFails \in BOOLEAN : reloadOoxmlFile(readFails)
  \/ \E p \in FileKeys : \E bytes \in SavedBytes(p) : \E busy \in BOOLEAN :
       \E active \in ActiveTextEditors(p) :
         (* the active editor is read in the catch only *)
         /\ saves < MaxSaves
         /\ busy \/ active = NoEditor
         /\ exists(fs, CachePath(p))
         /\ updateOOXMLFile(p, bytes, saves + 1, busy, active)

SpecSync == Init /\ [][NextSync]_vars

(* The same with the parts shown in editor tabs. *)
Next ==
  \/ NextSync
  \/ \E p \in FileKeys : viewFile(p)
  \/ \E p \in FileKeys : closeTextDocument(p)

Spec == Init /\ [][Next]_vars

-----------------------------------------------------------------------------
(* The save handler on its own: any file saved in the workspace, at any    *)
(* mtime, notifies it.                                                     *)

(* The mtimes a stat can give. *)
Times == 1 .. MaxTime

(* The file outside the cache folder, without and with a file named        *)
(* prev.<its name> next to it.                                             *)
OutsideFiles ==
  {[NoOutside EXCEPT ![NoPre] = XA],
   [NoOutside EXCEPT ![NoPre] = XA, ![Prev] = XB]}

(* Lines 338-375: _updateOOXMLFile for the file outside the cache folder.  *)
(* The path it puts into the zip is all of fileName, since the split at    *)
(* cacheFolderName leaves it whole (lines 355-357).                        *)
updateOutsideFile(bytes, time, busy, active) ==
  /\ watchers > 0
  /\ outside[NoPre] # Absent
  /\ saves' = saves + 1
  /\ IF outside[Prev] = Absent
       THEN /\ busy = FALSE
            /\ outside' = [outside EXCEPT ![NoPre] = bytes]
            /\ last' = DidSave(POut, time, "noprev")
            /\ UNCHANGED <<zip, container, stale, watchActions>>
     ELSE IF ~timeChanged(watchActions[POut], time)
       THEN /\ busy = FALSE
            /\ outside' = [outside EXCEPT ![NoPre] = bytes]
            /\ last' = DidSave(POut, time, "debounced")
            /\ UNCHANGED <<zip, container, stale, watchActions>>
     ELSE IF dataEquals(bytes, outside[Prev])
       THEN /\ busy = FALSE
            /\ outside' = [outside EXCEPT ![NoPre] = bytes]
            /\ watchActions' = [watchActions EXCEPT ![POut] = time]
            /\ last' = DidSave(POut, time, "same")
            /\ UNCHANGED <<zip, container, stale>>
     ELSE IF busy
       THEN /\ zip' = [zip EXCEPT ![POut] = bytes]
            /\ outside' = [outside EXCEPT ![NoPre] = bytes]
            /\ watchActions' = [watchActions EXCEPT ![POut] = time]
            /\ last' = caught(DidSave(POut, time, "busy"), "EBUSY", active)
            /\ UNCHANGED <<container, stale>>
     ELSE /\ zip' = [zip EXCEPT ![POut] = bytes]
          /\ container' = [zip EXCEPT ![POut] = bytes]
          /\ outside' = [outside EXCEPT ![NoPre] = bytes,
                                        ![Compare] = outside[Prev],
                                        ![Prev] = bytes]
          /\ watchActions' = [watchActions EXCEPT ![POut] = time]
          /\ stale' = TRUE
          /\ last' = DidSave(POut, time, "written")
  /\ UNCHANGED <<fs, tree, watchers, openTextEditors, faults, extMods>>
  /\ UNCHANGED <<fileWatcher, pending, reloads, saving, locked, broken,
                 resetting, callbacks>>

InitEdit ==
  /\ InitState
  /\ faults = FALSE
  /\ fileWatcher = "OOXMLViewer"
  /\ broken = {}
  /\ outside \in OutsideFiles

NextEdit ==
  \/ watchers = 0 /\ viewContents(FALSE, FALSE)
  \/ \E p \in FileKeys : \E bytes \in SavedBytes(p) \cup {fs[CachePath(p)]} :
       \E time \in Times : \E busy \in BOOLEAN :
         \E active \in ActiveTextEditors(p) :
           /\ saves < MaxNotifications
           /\ busy \/ active = NoEditor
           /\ exists(fs, CachePath(p))
           /\ updateOOXMLFile(p, bytes, time, busy, active)
  \/ \E bytes \in {XA, XB} : \E time \in Times : \E busy \in BOOLEAN :
       \E active \in ActiveTextEditors(POut) :
         /\ saves < MaxNotifications
         /\ busy \/ active = NoEditor
         /\ updateOutsideFile(bytes, time, busy, active)

SpecEdit == InitEdit /\ [][NextEdit]_vars

-----------------------------------------------------------------------------
(* The handlers with I/O that fails: rimraf may throw, and the cache file  *)
(* of a/x, or its prev. file, may be one that cannot be written.           *)
Unwritable == {{}, {CachePath(PX)}, {getPrevFilePath(CachePath(PX))}}

InitFaults ==
  /\ InitState
  /\ faults = TRUE
  /\ fileWatcher = "OOXMLViewer"
  /\ broken \in Unwritable
  /\ outside = NoOutside

NextFaults ==
  \/ \E rimrafFails \in BOOLEAN, readFails \in BOOLEAN :
       viewContents(rimrafFails, readFails)
  \/ \E rimrafFails \in BOOLEAN : clear(rimrafFails)
  \/ \E k \in FileKeys : \E c \in EntryContents(k) : ExternalModify(k, c)
  \/ \E readFails \in BOOLEAN : reloadOoxmlFile(readFails)

SpecFaults == InitFaults /\ [][NextFaults]_vars

-----------------------------------------------------------------------------
(* The tree built from any container: each of the three parts there or     *)
(* not, with any of its contents, and the folder entry there or not.       *)
TreeContainers ==
  {c \in [EntryKeys -> {XA, XBig, B1, B2, Empty, DirEntry, Absent}] :
     /\ \A k \in FileKeys \cup {PDir} : c[k] \in EntryContents(k)
     /\ c[POut] = Absent}

InitTree ==
  /\ container \in TreeContainers
  /\ InitViewer
  /\ faults = FALSE
  /\ fileWatcher = "OOXMLViewer"
  /\ broken = {}
  /\ outside = NoOutside

NextTree ==
  \/ viewContents(FALSE, FALSE)
  \/ clear(FALSE)

SpecTree == InitTree /\ [][NextTree]_vars

-----------------------------------------------------------------------------
(* Passes over a container whose parts come and go: another program        *)
(* rewrites the container whole, with any of the three parts there or not. *)
PartContainers ==
  {c \in TreeContainers :
     /\ c[PX] \in {XA, Absent}
     /\ c[PY] \in {B1, Absent}
     /\ c[PZ] \in {XA, Absent}
     /\ c[PDir] = Absent}

(* Another program writes the container anew, as c. *)
rewritten(c) ==
  /\ watchers > 0
  /\ extMods < MaxRewrites
  /\ c # container
  /\ container' = c
  /\ stale' = TRUE
  /\ extMods' = extMods + 1
  /\ last' = Did("modify", <<>>, "ok")
  /\ UNCHANGED <<zip, fs, tree, watchers, openTextEditors, faults, saves>>
  /\ UNCHANGED handlers

InitRefresh ==
  /\ container \in PartContainers
  /\ InitViewer
  /\ faults = FALSE
  /\ fileWatcher = "OOXMLViewer"
  /\ broken = {}
  /\ outside = NoOutside

NextRefresh ==
  \/ watchers = 0 /\ viewContents(FALSE, FALSE)
  \/ \E c \in PartContainers : rewritten(c)
  \/ \E readFails \in BOOLEAN : reloadOoxmlFile(readFails)

SpecRefresh == InitRefresh /\ [][NextRefresh]_vars

-----------------------------------------------------------------------------
(* A pass with the callbacks of _removeDeletedParts as forEach runs them:  *)
(* each is an async function that forEach calls and does not await, so it  *)
(* runs to its await of readFile (line 490) and resumes when the read      *)
(* returns, after _populateOOXMLViewer has gone on to line 288.            *)

(* Lines 465-470 and 224-288: the container is read and loaded, the walk   *)
(* is made, _removeDeletedParts starts its callbacks, refresh() is called  *)
(* and the open parts are shown again.  A pass starts once the callbacks   *)
(* of the pass before have all resumed.                                    *)
walkAndRefresh ==
  /\ watchers > 0
  /\ callbacks = <<>>
  /\ zip' = container
  /\ tree' = forEachFile([tree |-> tree, fs |-> fs], container, container,
                         1, TRUE).tree
  /\ fs' = viewFiles(forEachFile([tree |-> tree, fs |-> fs], container,
                                 container, 1, TRUE).fs,
                     container, openTextEditors)
  /\ callbacks' = removeDeletedParts(
                     forEachFile([tree |-> tree, fs |-> fs], container,
                                 container, 1, TRUE).tree,
                     container, <<>>)
  /\ stale' = FALSE
  /\ last' = Did("reload", <<>>, "refreshed")
  /\ UNCHANGED <<container, watchers, openTextEditors, faults, extMods,
                 saves>>
  /\ UNCHANGED <<fileWatcher, pending, reloads, saving, locked, watchActions,
                 broken, resetting, outside>>

(* Lines 490-499: the read of the first callback returns and the callback  *)
(* runs to its end.                                                        *)
callbackResumes ==
  /\ callbacks # <<>>
  /\ tree' = collect(deletedPartCallback([tree |-> tree, fs |-> fs],
                                         Head(callbacks)).tree)
  /\ fs' = deletedPartCallback([tree |-> tree, fs |-> fs],
                               Head(callbacks)).fs
  /\ callbacks' = Tail(callbacks)
  /\ last' = Did("removeDeletedParts", <<>>, "ok")
  /\ UNCHANGED <<container, zip, watchers, openTextEditors, stale, faults,
                 extMods, saves>>
  /\ UNCHANGED <<fileWatcher, pending, reloads, saving, locked, watchActions,
                 broken, resetting, outside>>

NextPass ==
  \/ watchers = 0 /\ viewContents(FALSE, FALSE)
  \/ \E c \in PartContainers : rewritten(c)
  \/ walkAndRefresh
  \/ callbackResumes

SpecPass == InitRefresh /\ [][NextPass]_vars

-----------------------------------------------------------------------------
(* Saves of parts that passes over a rewritten container have deleted.     *)

(* The editor of part p saves bytes, which writes the cache file of p and  *)
(* creates it when a pass has deleted it, and the handler of               *)
(* onDidSaveTextDocument is called: when line 345 finds no prev. file the  *)
(* handler returns.                                                        *)
documentSaved(p, bytes, time) ==
  updateOOXMLFile(p, bytes, time, FALSE, NoEditor)

(* The handler is called for the document of part p when its cache file is *)
(* no longer there: line 345 is false and the handler returns.             *)
updateDeletedFile(p, time) ==
  /\ watchers > 0
  /\ ~bothExist(fs, CachePath(p), getPrevFilePath(CachePath(p)))
  /\ ~exists(fs, CachePath(p))
  /\ saves' = saves + 1
  /\ last' = DidSave(p, time, "nofile")
  /\ UNCHANGED <<container, zip, fs, tree, watchers, openTextEditors, stale,
                 faults, extMods>>
  /\ UNCHANGED handlers

(* The containers another program makes by removing a/x or putting it     *)
(* back.                                                                   *)
SaveContainers == {c \in PartContainers : c[PY] = B1 /\ c[PZ] = XA}

InitSave == InitRefresh /\ container \in SaveContainers

NextSave ==
  \/ watchers = 0 /\ viewContents(FALSE, FALSE)
  \/ \E c \in SaveContainers : rewritten(c)
  \/ reloadOoxmlFile(FALSE)
  \/ \E p \in FileKeys : \E bytes \in SavedBytes(p) : \E time \in Times :
       saves < MaxNotifications /\ documentSaved(p, bytes, time)
  \/ \E p \in FileKeys : \E time \in Times :
       saves < MaxNotifications /\ updateDeletedFile(p, time)

SpecSave == InitSave /\ [][NextSave]_vars

-----------------------------------------------------------------------------
(* The change detector on its own, for a part whose cache file and prev.   *)
(* file are each missing, a directory, unreadable, or a file with bytes.   *)
FileStates == {Absent, DirEntry, Unreadable, Empty, XA, XB, B1}

InitDetect ==
  /\ container \in {c \in InitContainers : c[PDir] = Absent}
  /\ zip = EmptyZip
  /\ \E k \in FileKeys : \E cur \in FileStates, prev \in FileStates :
       fs = [NoCache EXCEPT ![CachePath(k)] = cur,
                            ![getPrevFilePath(CachePath(k))] = prev]
  /\ tree = EmptyTree
  /\ watchers = 0
  /\ openTextEditors = {}
  /\ stale = FALSE
  /\ extMods = 0
  /\ saves = 0
  /\ last = Did("new", <<>>, "ok")
  /\ pending = 0
  /\ reloads = <<>>
  /\ saving = NoSave
  /\ locked = FALSE
  /\ watchActions = [k \in FileKeys \cup {POut} |-> 0]
  /\ resetting = "idle"
  /\ callbacks = <<>>
  /\ faults = FALSE
  /\ fileWatcher = "OOXMLViewer"
  /\ broken = {}
  /\ outside = NoOutside

(* Line 242: the walk calls the detector for the node of part k and goes   *)
(* on with what it returns.                                                *)
detect(k) ==
  /\ last' = Did("fileHasBeenChangedFromOutside", k,
                 IF fileHasBeenChangedFromOutside(fs, k) THEN "true"
                 ELSE "false")
  /\ UNCHANGED <<container, zip, fs, tree, watchers, openTextEditors, stale,
                 faults, extMods, saves>>
  /\ UNCHANGED handlers

NextDetect == \E k \in FileKeys : detect(k)

SpecDetect == InitDetect /\ [][NextDetect]_vars

-----------------------------------------------------------------------------
(* The handlers step by step.  A handler is an async function: it runs to  *)
(* its next await and the event loop then runs any other handler that is   *)
(* ready.  Each step below runs from one await to a later one.             *)

(* A call of the container watcher's handler that has yet to read the      *)
(* container; lock tells whether it runs under locked.                     *)
Started(lock) == [pc |-> "readFile", data |-> EmptyZip, lock |-> lock]

remove(s, i) == SubSeq(s, 1, i - 1) \o SubSeq(s, i + 1, Len(s))

(* The container is written by another program while its watcher is        *)
(* registered: one change notification is due.                             *)
containerChanged(k, c) ==
  /\ watchers > 0
  /\ modified(k, c)
  /\ pending' = pending + 1
  /\ UNCHANGED <<fileWatcher, reloads, saving, locked>>
  /\ UNCHANGED <<watchActions, aside>>

(* Lines 78-80 of viewContents: every change notification calls            *)
(* _reloadOoxmlFile, which runs to its await of readFile.                  *)
onDidChange ==
  /\ fileWatcher = "OOXMLViewer"
  /\ watchers > 0
  /\ pending > 0
  /\ Len(reloads) < MaxReloads
  /\ pending' = pending - 1
  /\ reloads' = Append(reloads, Started(FALSE))
  /\ UNCHANGED <<container, zip, fs, tree, watchers, openTextEditors, stale,
                 faults, extMods, saves, last, fileWatcher, saving, locked>>
  /\ UNCHANGED <<watchActions, aside>>

(* Lines 38-44 of OOXMLPackageFileWatcher: a change notification calls     *)
(* openOOXMLPackage under locked, and does nothing while locked is set.    *)
onDidChangeLocked ==
  /\ fileWatcher = "OOXMLPackageFileWatcher"
  /\ watchers > 0
  /\ pending > 0
  /\ pending' = pending - 1
  /\ IF locked
       THEN UNCHANGED <<reloads, locked>>
       ELSE /\ locked' = TRUE
            /\ reloads' = Append(reloads, Started(TRUE))
  /\ UNCHANGED <<container, zip, fs, tree, watchers, openTextEditors, stale,
                 faults, extMods, saves, last, fileWatcher, saving>>
  /\ UNCHANGED <<watchActions, aside>>

(* Line 466: the container is read. *)
readFile(i) ==
  /\ reloads[i].pc = "readFile"
  /\ reloads' = [reloads EXCEPT ![i].pc = "loadAsync", ![i].data = container]
  /\ stale' = FALSE
  /\ UNCHANGED <<container, zip, fs, tree, watchers, openTextEditors,
                 faults, extMods, saves, last, fileWatcher, pending, saving,
                 locked>>
  /\ UNCHANGED <<watchActions, aside>>

(* Lines 467-469: the bytes read are loaded, this.zip is replaced, and     *)
(* _populateOOXMLViewer is called with the files of the new zip.           *)
loadAsync(i) ==
  /\ reloads[i].pc = "loadAsync"
  /\ zip' = reloads[i].data
  /\ reloads' = [reloads EXCEPT ![i].pc = "populate"]
  /\ UNCHANGED <<container, fs, tree, watchers, openTextEditors, stale,
                 faults, extMods, saves, last, fileWatcher, pending, saving,
                 locked>>
  /\ UNCHANGED <<watchActions, aside>>

(* The tree and the cache after a populate that gives st. *)
populated(st) == tree' = st.tree /\ fs' = st.fs

(* Line 469: _populateOOXMLViewer over the files it was called with; its   *)
(* _createFile and _removeDeletedParts read this.zip as it is by now.      *)
populate(i) ==
  /\ reloads[i].pc = "populate"
  /\ populated(populateOOXMLViewer([tree |-> tree, fs |-> fs], zip,
                                   reloads[i].data, TRUE))
  /\ reloads' = [reloads EXCEPT ![i].pc = "viewFiles"]
  /\ UNCHANGED <<container, zip, watchers, openTextEditors, stale,
                 faults, extMods, saves, last, fileWatcher, pending, saving,
                 locked>>
  /\ UNCHANGED <<watchActions, aside>>

(* Line 470, and line 42 of OOXMLPackageFileWatcher: the open parts are    *)
(* shown again, the handler returns, and locked is reset by the call that  *)
(* set it.                                                                 *)
viewFilesAndReturn(i) ==
  /\ reloads[i].pc = "viewFiles"
  /\ fs' = viewFiles(fs, zip, openTextEditors)
  /\ reloads' = remove(reloads, i)
  /\ locked' = IF reloads[i].lock THEN FALSE ELSE locked
  /\ last' = Did("reload", <<>>, "done")
  /\ UNCHANGED <<container, zip, tree, watchers, openTextEditors, stale,
                 faults, extMods, saves, fileWatcher, pending, saving>>
  /\ UNCHANGED <<watchActions, aside>>

(* Lines 339-346: the editor has written bytes to the cache file of part p *)
(* and the handler of onDidSaveTextDocument is called; with the file and   *)
(* its prev. file there it runs to its await of stat.                      *)
onDidSaveTextDocument(p, bytes) ==
  /\ watchers > 0
  /\ saves < MaxSaves
  /\ saving = NoSave
  /\ exists(fs, CachePath(p))
  /\ saves' = saves + 1
  /\ fs' = [fs EXCEPT ![CachePath(p)] = bytes]
  /\ saving' = IF exists(fs, getPrevFilePath(CachePath(p)))
                 THEN [NoSave EXCEPT !.pc = "stat", !.part = p]
                 ELSE NoSave
  /\ UNCHANGED <<container, zip, tree, watchers, openTextEditors, stale,
                 faults, extMods, last, fileWatcher, pending, reloads, locked>>
  /\ UNCHANGED <<watchActions, aside>>

(* With cur and prev read: equal bytes end the handler; other bytes go     *)
(* into this.zip, and generateAsync is called on it.                       *)
compared(cur, prev) ==
  IF dataEquals(cur, prev)
    THEN /\ saving' = NoSave
         /\ last' = Did("save", saving.part, "same")
         /\ UNCHANGED zip
    ELSE /\ zip' = zipSetFile(zip, saving.part, cur)
         /\ saving' = [saving EXCEPT !.pc = "writeContainer", !.cur = cur,
                         !.prev = prev,
                         !.zipFile = zipSetFile(zip, saving.part, cur)]
         /\ UNCHANGED last

(* Lines 346-358: stat, the two reads, the comparison, zip.file and        *)
(* generateAsync.                                                          *)
statAndRead ==
  /\ saving.pc = "stat"
  /\ compared(fs[CachePath(saving.part)],
              fs[getPrevFilePath(CachePath(saving.part))])
  /\ UNCHANGED <<container, fs, tree, watchers, openTextEditors, stale,
                 faults, extMods, saves, fileWatcher, pending, reloads,
                 locked>>
  /\ watchActions' = [watchActions EXCEPT ![saving.part] = saves]
  /\ UNCHANGED aside

(* Line 359: the generated archive is written over the container, which    *)
(* notifies the container watcher; on EBUSY the catch ends the handler.    *)
writeContainer(busy, active) ==
  /\ saving.pc = "writeContainer"
  /\ IF busy
       THEN /\ saving' = NoSave
            /\ last' = caught(Did("save", saving.part, "busy"), "EBUSY",
                              active)
            /\ UNCHANGED <<container, stale, pending>>
       ELSE /\ container' = saving.zipFile
            /\ stale' = TRUE
            /\ pending' = pending + 1
            /\ saving' = [saving EXCEPT !.pc = "writeGenerations"]
            /\ UNCHANGED last
  /\ UNCHANGED <<zip, fs, tree, watchers, openTextEditors, faults, extMods,
                 saves, fileWatcher, reloads, locked>>
  /\ UNCHANGED <<watchActions, aside>>

(* Lines 360-361: the compare. file and the prev. file are written. *)
writeCompareAndPrev ==
  /\ saving.pc = "writeGenerations"
  /\ fs' = writeGenerations(
             fs,
             <<dirname(saving.part), Compare, basename(saving.part)>>,
             getPrevFilePath(CachePath(saving.part)),
             saving.cur, saving.prev)
  /\ saving' = NoSave
  /\ last' = Did("save", saving.part, "written")
  /\ UNCHANGED <<container, zip, tree, watchers, openTextEditors, stale,
                 faults, extMods, saves, fileWatcher, pending, reloads,
                 locked>>
  /\ UNCHANGED <<watchActions, aside>>

(* The container is opened once. *)
open == watchers = 0 /\ viewContents(FALSE, FALSE)

InitConc ==
  /\ InitState
  /\ faults = FALSE
  /\ broken = {}
  /\ outside = NoOutside
  /\ fileWatcher \in {"OOXMLViewer", "OOXMLPackageFileWatcher"}

NextConc ==
  \/ open
  \/ \E k \in FileKeys : \E c \in EntryContents(k) : containerChanged(k, c)
  \/ onDidChange
  \/ onDidChangeLocked
  \/ \E i \in DOMAIN reloads : readFile(i)
  \/ \E i \in DOMAIN reloads : loadAsync(i)
  \/ \E i \in DOMAIN reloads : populate(i)
  \/ \E i \in DOMAIN reloads : viewFilesAndReturn(i)
  \/ \E p \in FileKeys : \E bytes \in SavedBytes(p) :
       onDidSaveTextDocument(p, bytes)
  \/ statAndRead
  \/ \E busy \in BOOLEAN : \E active \in ActiveTextEditors(saving.part) :
       (busy \/ active = NoEditor) /\ writeContainer(busy, active)
  \/ writeCompareAndPrev

SpecConc == InitConc /\ [][NextConc]_vars

-----------------------------------------------------------------------------
(* The container watcher of OOXMLPackageFileWatcher alone, with the event  *)
(* loop running every handler that is ready.                               *)

(* Another program writes entry k of the container while the watcher is    *)
(* registered; the watcher is notified of each write.                      *)
containerWritten(k, c) ==
  /\ watchers > 0
  /\ extMods < MaxRewrites
  /\ c \in EntryContents(k)
  /\ c # container[k]
  /\ container' = [container EXCEPT ![k] = c]
  /\ stale' = TRUE
  /\ extMods' = extMods + 1
  /\ pending' = pending + 1
  /\ last' = Did("modify", <<>>, "ok")
  /\ UNCHANGED <<zip, fs, tree, watchers, openTextEditors, faults, saves,
                 fileWatcher, reloads, saving, locked>>
  /\ UNCHANGED <<watchActions, aside>>

InitLocked ==
  /\ InitState
  /\ faults = FALSE
  /\ broken = {}
  /\ outside = NoOutside
  /\ fileWatcher = "OOXMLPackageFileWatcher"

NextLocked ==
  \/ open
  \/ \E k \in FileKeys : \E c \in EntryContents(k) : containerWritten(k, c)
  \/ onDidChangeLocked
  \/ \E i \in DOMAIN reloads : readFile(i)
  \/ \E i \in DOMAIN reloads : loadAsync(i)
  \/ \E i \in DOMAIN reloads : populate(i)
  \/ \E i \in DOMAIN reloads : viewFilesAndReturn(i)

(* What a step of populate(i) does to reloads; no other step of a handler  *)
(* moves a call from "populate" to "viewFiles".                             *)
populateReturns ==
  \E i \in DOMAIN reloads :
    /\ reloads[i].pc = "populate"
    /\ reloads' = [reloads EXCEPT ![i].pc = "viewFiles"]

(* A notification that is due is delivered, and a handler waiting at an    *)
(* await whose promise has settled is resumed.                             *)
EventLoop ==
  /\ WF_vars(onDidChangeLocked)
  /\ WF_vars(\E i \in DOMAIN reloads : readFile(i))
  /\ WF_vars(\E i \in DOMAIN reloads : loadAsync(i))
  /\ WF_reloads(populateReturns)
  /\ WF_vars(\E i \in DOMAIN reloads : viewFilesAndReturn(i))

SpecLocked == InitLocked /\ [][NextLocked]_vars

SpecLockedFair == SpecLocked /\ EventLoop

(* Line 466 with a readFile that throws: nothing in _reloadOoxmlFile       *)
(* catches, so the call rejects, and the handler that awaits it at line 41 *)
(* of OOXMLPackageFileWatcher is left at that await: line 42 does not run. *)
readFileThrows(i) ==
  /\ reloads[i].pc = "readFile"
  /\ reloads' = remove(reloads, i)
  /\ last' = Did("reload", <<>>, "unread")
  /\ UNCHANGED <<container, zip, fs, tree, watchers, openTextEditors, stale,
                 faults, extMods, saves, fileWatcher, pending, saving,
                 locked>>
  /\ UNCHANGED <<watchActions, aside>>

InitLockedFaults ==
  /\ InitState
  /\ faults = TRUE
  /\ broken = {}
  /\ outside = NoOutside
  /\ fileWatcher = "OOXMLPackageFileWatcher"

NextLockedFaults ==
  \/ NextLocked
  \/ \E i \in DOMAIN reloads : readFileThrows(i)

SpecLockedFaults == InitLockedFaults /\ [][NextLockedFaults]_vars

-----------------------------------------------------------------------------
(* clear step by step, with the handlers above running between its awaits. *)
(* resetting is where the call of _resetOOXMLViewer stands: not yet made,  *)
(* at the await of rimraf, at the await of _closeEditors, or returned.     *)

(* The folders of the cache folder. *)
Folders == {f[1] : f \in CacheFiles}

(* Lines 122 and 201-206: clear calls _resetOOXMLViewer, which replaces the *)
(* zip and the tree and, the cache folder being there, awaits rimraf.      *)
resetStarts ==
  /\ resetting = "idle"
  /\ watchers > 0
  /\ zip' = EmptyZip
  /\ tree' = EmptyTree
  /\ resetting' = "rimraf"
  /\ last' = Did("clear", <<>>, "rimraf")
  /\ UNCHANGED <<container, fs, watchers, openTextEditors, stale, faults,
                 extMods, saves>>
  /\ UNCHANGED <<fileWatcher, pending, reloads, saving, locked, watchActions,
                 broken, outside, callbacks>>

(* Line 206: rimraf removes the cache folder one folder after the other. *)
rimrafFolder(d) ==
  /\ resetting = "rimraf"
  /\ \E f \in CacheFiles : f[1] = d /\ exists(fs, f)
  /\ fs' = [f \in CacheFiles |-> IF f[1] = d THEN Absent ELSE fs[f]]
  /\ UNCHANGED <<container, zip, tree, watchers, openTextEditors, stale,
                 faults, extMods, saves, last>>
  /\ UNCHANGED <<fileWatcher, pending, reloads, saving, locked, watchActions,
                 aside>>

(* Lines 206-209: rimraf returns with the cache folder gone; closeWatchers *)
(* disposes the watchers, so that no notification is delivered any more,   *)
(* and _closeEditors is awaited.                                           *)
rimrafReturns ==
  /\ resetting = "rimraf"
  /\ \A f \in CacheFiles : ~exists(fs, f)
  /\ watchers' = 0
  /\ pending' = 0
  /\ resetting' = "closeEditors"
  /\ UNCHANGED <<container, zip, fs, tree, openTextEditors, stale, faults,
                 extMods, saves, last>>
  /\ UNCHANGED <<fileWatcher, reloads, saving, locked, watchActions, broken,
                 outside, callbacks>>

(* Lines 209 and 214: _closeEditors returns; the cache files of the        *)
(* documents being gone it has closed no editor (line 181).  clear returns. *)
closeEditorsReturns ==
  /\ resetting = "closeEditors"
  /\ resetting' = "returned"
  /\ last' = Did("clear", <<>>, "ok")
  /\ UNCHANGED <<container, zip, fs, tree, watchers, openTextEditors, stale,
                 faults, extMods, saves>>
  /\ UNCHANGED <<fileWatcher, pending, reloads, saving, locked, watchActions,
                 broken, outside, callbacks>>

InitReset == InitConc /\ fileWatcher = "OOXMLViewer"

(* The container is opened, clear is called once, and the handlers of the  *)
(* viewer's own watchers go on while clear stands at an await.             *)
NextReset ==
  \/ resetting = "idle" /\ open
  \/ \E k \in FileKeys : \E c \in EntryContents(k) : containerChanged(k, c)
  \/ onDidChange
  \/ \E i \in DOMAIN reloads : readFile(i)
  \/ \E i \in DOMAIN reloads : loadAsync(i)
  \/ \E i \in DOMAIN reloads : populate(i)
  \/ \E i \in DOMAIN reloads : viewFilesAndReturn(i)
  \/ \E p \in FileKeys : \E bytes \in SavedBytes(p) :
       onDidSaveTextDocument(p, bytes)
  \/ statAndRead
  \/ writeContainer(FALSE, NoEditor)
  \/ writeCompareAndPrev
  \/ resetStarts
  \/ \E d \in Folders : rimrafFolder(d)
  \/ rimrafReturns
  \/ closeEditorsReturns

SpecReset == InitReset /\ [][NextReset]_vars

-----------------------------------------------------------------------------
(* The generations of a leaf part k, and the leaves of the tree. *)
current(f, k) == f[CachePath(k)]
previous(f, k) == f[getPrevFilePath(CachePath(k))]
compare(f, k) == f[<<dirname(k), Compare, basename(k)>>]

Leaves(t) == {k \in FileKeys : t[k].present /\ t[k].children = <<>>}

(* What _createFile writes for the bytes of an entry. *)
materialized(bytes) ==
  IF startsWithXml(bytes) /\ formattedXml(bytes) # <<>>
    THEN formattedXml(bytes) ELSE bytes

Opened == last.op = "viewContents" /\ last.out = "ok"
Reloads == last'.op = "reload" /\ last'.out = "ok"
Saves(k) == last'.op = "save" /\ last'.part = k
WritesBack(k) == Saves(k) /\ last'.out = "written"

(* C1: after the first open of a container (reset, load and populate all   *)
(* without error) every leaf's prev. file holds the bytes of its cache     *)
(* file, and no leaf is classified as changed from outside.                *)
C1_FirstOpenPreviousEqualsCurrent ==
  Opened =>
    \A k \in FileKeys :
      IsBytes(container[k]) =>
        /\ k \in Leaves(tree)
        /\ exists(fs, CachePath(k))
        /\ previous(fs, k) = current(fs, k)
        /\ ~fileHasBeenChangedFromOutside(fs, k)
        /\ tree[k].iconPath # "asterisk.yellow"

C1_Witness ==
  /\ Opened
  /\ \E k \in Leaves(tree) : current(fs, k) = formatXml(XA)
  /\ \E k \in Leaves(tree) : current(fs, k) = B1

(* C8 (as stated): after the first open of a container every leaf's        *)
(* compare. file is empty.                                                 *)
C8_FirstOpenCompareEmpty ==
  Opened => \A k \in Leaves(tree) : compare(fs, k) = Empty

(* C8 (amended): after the first open of a container every leaf's compare. *)
(* file holds the bytes of its cache file and of its prev. file, the       *)
(* materialized part; it is empty only for an empty part.                  *)
C8_FirstOpenCompareIsCopy ==
  Opened =>
    \A k \in Leaves(tree) :
      /\ compare(fs, k) = current(fs, k)
      /\ compare(fs, k) = materialized(container[k])

C8_Witness ==
  /\ Opened
  /\ \E k \in Leaves(tree) : compare(fs, k) = formatXml(XA)
  /\ \E k \in Leaves(tree) : compare(fs, k) = B1

(* The entry of leaf k was changed in the container after the last load,   *)
(* its cache file is as the last pass left it, and the new bytes           *)
(* materialize to something else.                                          *)
ModifiedOutside(k) ==
  /\ k \in Leaves(tree)
  /\ IsBytes(zip[k]) /\ IsBytes(container[k]) /\ container[k] # zip[k]
  /\ exists(fs, CachePath(k))
  /\ current(fs, k) = previous(fs, k)
  /\ materialized(container[k]) # previous(fs, k)

(* C2 (as stated): when a leaf's entry, XML or binary, has been modified   *)
(* in the container, the next pass leaves in its compare. file the bytes   *)
(* its prev. file held before the pass (materialized, as every generation  *)
(* is), in its prev. file and its cache file the materialized new bytes,   *)
(* and marks its node as changed.                                          *)
C2_ExternalChangeRotatesGenerations ==
  [][\A k \in FileKeys :
       (Reloads /\ ModifiedOutside(k)) =>
         /\ compare(fs', k) = materialized(previous(fs, k))
         /\ previous(fs', k) = materialized(container[k])
         /\ current(fs', k) = materialized(container[k])
         /\ tree'[k].iconPath = "asterisk.yellow"]_vars

(* The container has not been written since the last load. *)
Quiescent == ~stale /\ watchers > 0

(* C3 (as stated): a pass over a container that has not been modified      *)
(* since the previous pass leaves the cache file, prev. file and compare.  *)
(* file of every leaf as they were.                                        *)
C3_PassIdempotent ==
  [][(Reloads /\ Quiescent) =>
       \A k \in Leaves(tree) :
         /\ current(fs', k) = current(fs, k)
         /\ previous(fs', k) = previous(fs, k)
         /\ compare(fs', k) = compare(fs, k)]_vars

(* C3 (amended): a pass over a container that has not been modified since  *)
(* the previous pass leaves, for every leaf whose entry is in the          *)
(* container, the prev. file and the compare. file as they were, and the   *)
(* cache file too when it held the bytes of the prev. file.                *)
C3_PassIdempotentOnPresentLeaves ==
  [][(Reloads /\ Quiescent) =>
       \A k \in Leaves(tree) :
         IsBytes(container[k]) =>
           /\ previous(fs', k) = previous(fs, k)
           /\ compare(fs', k) = compare(fs, k)
           /\ current(fs, k) = previous(fs, k) =>
                current(fs', k) = current(fs, k)]_vars

C3_Witness ==
  /\ last.op = "reload" /\ last.out = "ok" /\ ~stale
  /\ \E k \in Leaves(tree) :
       /\ IsBytes(container[k])
       /\ compare(fs, k) # previous(fs, k)
       /\ tree[k].iconPath = "File"

(* C4 (as stated): a save with bytes other than the prev. file's, written  *)
(* back with success, leaves a container that holds the saved bytes for    *)
(* the part and, for every other part, the bytes the container held for it *)
(* before the save.                                                        *)
C4_WriteBackKeepsContainerEntries ==
  [][\A p \in FileKeys :
       WritesBack(p) =>
         /\ container'[p] = current(fs', p)
         /\ \A k \in FileKeys \ {p} : container'[k] = container[k]]_vars

(* C4 (amended): a save with bytes other than the prev. file's, written    *)
(* back with success, leaves a container that holds the saved bytes for    *)
(* the part and, for every other part, the bytes the zip in memory held    *)
(* for it before the save.                                                 *)
C4_WriteBackKeepsZipEntries ==
  [][\A p \in FileKeys :
       WritesBack(p) =>
         /\ container'[p] = current(fs', p)
         /\ \A k \in FileKeys \ {p} : container'[k] = zip[k]]_vars

C4_Witness ==
  /\ last.op = "save" /\ last.out = "written"
  /\ container[last.part] = current(fs, last.part)
  /\ \E k \in FileKeys \ {last.part} : IsBytes(container[k])

(* C5: a save whose bytes are those of the prev. file writes no container  *)
(* and changes no cache file, prev. file or compare. file but the saved    *)
(* file itself.                                                            *)
C5_SameBytesSaveWritesNothing ==
  [][\A p \in FileKeys :
       (/\ Saves(p)
        /\ exists(fs, getPrevFilePath(CachePath(p)))
        /\ current(fs', p) = previous(fs, p)) =>
         /\ container' = container
         /\ zip' = zip
         /\ \A f \in CacheFiles \ {CachePath(p)} : fs'[f] = fs[f]]_vars

C5_Witness ==
  /\ last.op = "save" /\ last.out = "same"
  /\ current(fs, last.part) = previous(fs, last.part)
  /\ compare(fs, last.part) # previous(fs, last.part)

(* C6: after the write-back of a save with bytes other than the prev.      *)
(* file's, the compare. file holds the bytes the prev. file held before    *)
(* the save and the prev. file holds the saved bytes.                      *)
C6_WriteBackRotatesGenerations ==
  [][\A p \in FileKeys :
       WritesBack(p) =>
         /\ current(fs', p) # previous(fs, p)
         /\ compare(fs', p) = previous(fs, p)
         /\ previous(fs', p) = current(fs', p)]_vars

C6_Witness ==
  /\ last.op = "save" /\ last.out = "written"
  /\ previous(fs, last.part) = current(fs, last.part)
  /\ compare(fs, last.part) # previous(fs, last.part)
  /\ compare(fs, last.part) # Empty

(* C7 (as stated): the first pass after a leaf's entry, at any depth, has  *)
(* been removed from the container leaves the leaf's cache file there and  *)
(* empty and its node marked as deleted.                                   *)
C7_RemovedLeafTombstoned ==
  [][\A k \in FileKeys :
       (/\ Reloads
        /\ k \in Leaves(tree)
        /\ IsBytes(zip[k]) /\ zip[k] # Empty
        /\ container[k] = Absent
        /\ exists(fs, CachePath(k))
        /\ current(fs, k) # Empty) =>
         /\ current(fs', k) = Empty
         /\ tree'[k].present
         /\ tree'[k].iconPath = "asterisk.red"]_vars

(* C9 (as stated): at most one call of the container watcher's handler is  *)
(* in flight; a change notification that arrives while one is in flight    *)
(* starts none.                                                            *)
C9_OneReloadInFlight == Len(reloads) <= 1

(* C10 (as stated): in no state is a call of the save handler in flight    *)
(* while a call of the container watcher's handler is.                     *)
C10_ReloadAndSaveSerialized == ~(reloads # <<>> /\ saving # NoSave)

(* A save notification for the cache file of part p leaves the container,  *)
(* the zip, the recorded mtimes and every cache file but the saved one as  *)
(* they were.                                                              *)
Ignored(p) ==
  /\ container' = container
  /\ zip' = zip
  /\ watchActions' = watchActions
  /\ \A f \in CacheFiles \ {CachePath(p)} : fs'[f] = fs[f]

(* C11 (as stated): a save notification for a cache file whose mtime is    *)
(* equal to or earlier than the one recorded for it is ignored.            *)
C11_NotLaterTimeIgnored ==
  [][\A p \in FileKeys :
       (Saves(p) /\ watchActions[p] # 0 /\ last'.time <= watchActions[p])
         => Ignored(p)]_vars

(* C11 (amended): a save notification for a cache file whose mtime is      *)
(* equal to the one recorded for it is ignored; with the prev. file there  *)
(* and any other mtime, later or earlier, the mtime is recorded for the    *)
(* file.                                                                   *)
C11_SameTimeIgnored ==
  [][\A p \in FileKeys :
       /\ (Saves(p) /\ last'.time = watchActions[p]) => Ignored(p)
       /\ (/\ Saves(p)
           /\ exists(fs, getPrevFilePath(CachePath(p)))
           /\ last'.time # watchActions[p])
            => watchActions'[p] = last'.time]_vars

C11_Witness ==
  /\ last.op = "save" /\ last.out = "debounced"
  /\ last.part \in FileKeys
  /\ last.time = watchActions[last.part]
  /\ current(fs, last.part) # previous(fs, last.part)

(* C12 (as stated): a save notification for a file that is not in the      *)
(* cache folder changes neither the zip nor the container nor any prev. or *)
(* compare. file, in the cache folder or next to the saved file.           *)
C12_OutsideSaveFiltered ==
  [][Saves(POut) =>
       /\ zip' = zip
       /\ container' = container
       /\ fs' = fs
       /\ outside'[Prev] = outside[Prev]
       /\ outside'[Compare] = outside[Compare]]_vars

(* C13 (as stated): when the write of the container fails with EBUSY in a  *)
(* save of part p, the warning is shown, the editor of p is made dirty,    *)
(* the container is as it was and so are the prev. and compare. files of   *)
(* p.                                                                      *)
C13_BusyMakesSavedEditorDirty ==
  [][\A p \in FileKeys :
       (Saves(p) /\ last'.out = "busy") =>
         /\ last'.warning
         /\ last'.dirty = p
         /\ container' = container
         /\ previous(fs', p) = previous(fs, p)
         /\ compare(fs', p) = compare(fs, p)]_vars

(* C13 (amended): when the write of the container fails with EBUSY in a    *)
(* save of part p, the warning is shown, the active text editor, if there  *)
(* is one, is made dirty, the container is as it was and so is every       *)
(* prev. and compare. file.                                                *)
C13_BusyMakesActiveEditorDirty ==
  [][\A p \in FileKeys :
       (Saves(p) /\ last'.out = "busy") =>
         /\ last'.warning
         /\ last'.dirty = last'.active
         /\ container' = container
         /\ \A k \in FileKeys :
              /\ previous(fs', k) = previous(fs, k)
              /\ compare(fs', k) = compare(fs, k)]_vars

C13_Witness ==
  /\ last.op = "save" /\ last.out = "busy"
  /\ last.part \in FileKeys
  /\ last.warning
  /\ last.dirty # NoEditor /\ last.dirty # last.part
  /\ current(fs, last.part) # previous(fs, last.part)
  /\ zip[last.part] # container[last.part]

(* C14 (as stated): once a save has been written back, every leaf whose    *)
(* entry is in the container has a prev. file with the bytes of that       *)
(* entry (both as _createFile writes them).                                *)
C14_BaselineIsContainerAfterWriteBack ==
  (last.op = "save" /\ last.out = "written" /\ last.part \in FileKeys) =>
    \A k \in Leaves(tree) :
      IsBytes(container[k]) =>
        materialized(previous(fs, k)) = materialized(container[k])

(* The names of the array s are all different. *)
distinct(s) == \A i, j \in DOMAIN s : s[i] = s[j] => i = j

(* The file entries of a container. *)
fileEntries(c) == {k \in FileKeys : IsBytes(c[k])}

(* C15: in the tree built from the entries of a container, no two children *)
(* of a node have the same name; a part has a file entry exactly when the  *)
(* walk from the root along the names of its path ends at a leaf, and that *)
(* leaf has the path as its fullPath; the children of the root are the     *)
(* first names of the file entries, each once, so that a folder entry with *)
(* no file entry under it has no node.                                     *)
C15_TreeMirrorsFileEntries ==
  Opened =>
    /\ \A n \in NodeKeys : distinct(tree[n].children)
    /\ \A k \in FileKeys :
         k \in fileEntries(container) <=>
           (reachable(tree, k) /\ k \in Leaves(tree) /\ tree[k].fullPath = k)
    /\ Range(tree[<<>>].children) = {k[1] : k \in fileEntries(container)}
    /\ \A n \in NodeKeys \ {<<>>} :
         tree[n].present =>
           \E k \in fileEntries(container) :
             Len(n) <= Len(k) /\ SubSeq(k, 1, Len(n)) = n

C15_Witness ==
  /\ Opened
  /\ container[PDir] = DirEntry
  /\ fileEntries(container) = {PX, PY, PZ}
  /\ tree[<<>>].children = <<"a", "z">>
  /\ tree[<<"a">>].children = <<"x", "y">>

(* A pass of _populateOOXMLViewer has just ended without error. *)
Populated == last.op \in {"viewContents", "reload"} /\ last.out = "ok"

(* C16 (as stated): after a pass, the fullPath of a child of the root is   *)
(* its name, and the fullPath of any other node is its parent's fullPath   *)
(* and then its name.                                                      *)
C16_FullPathIsParentPathThenName ==
  Populated =>
    \A n \in NodeKeys \ {<<>>} :
      tree[n].present =>
        tree[n].fullPath =
          IF Len(n) = 1 THEN n
          ELSE Append(tree[dirname(n)].fullPath, basename(n))

C19_OneSetOfWatchers == watchers <= 1

(* A pass writes the cache file of every part with a file entry (lines 240 *)
(* and 261): for part k that write throws.                                 *)
ErrorAt(k) == IsBytes(container[k]) /\ CachePath(k) \in broken

PartlyDeleted ==
  /\ resetting = "rimraf"
  /\ \E d \in Folders : \A f \in CacheFiles : f[1] = d => ~exists(fs, f)
  /\ \E f \in CacheFiles : exists(fs, f)

(* A call of the container watcher's handler or of the save handler        *)
(* starts.                                                                 *)
HandlerFires ==
  \/ Len(reloads') > Len(reloads)
  \/ saves' > saves

(* C20 (as stated): the watchers are disposed before the reset removes the *)
(* cache folder, so that no call of the container watcher's handler or of  *)
(* the save handler starts while the cache folder is partly removed.       *)
C20_NoHandlerDuringPurge ==
  [][PartlyDeleted => ~HandlerFires]_vars

(* C21 (as stated): a part with a file entry and no node before a pass     *)
(* that is not the first has, after the pass, a cache file and a prev.     *)
(* file with the same bytes, an empty compare. file and a node with the    *)
(* green icon; after the first load no node has the green icon.            *)
C21_NewLeafMarkedNew ==
  [][/\ Reloads =>
          \A k \in FileKeys :
            (~tree[k].present /\ IsBytes(container[k])) =>
              /\ exists(fs', CachePath(k))
              /\ current(fs', k) = previous(fs', k)
              /\ compare(fs', k) = Empty
              /\ tree'[k].present
              /\ tree'[k].iconPath = "asterisk.green"
     /\ (last'.op = "viewContents" /\ last'.out = "ok") =>
          \A n \in NodeKeys : tree'[n].iconPath # "asterisk.green"]_vars

(* C22 (as stated): a pass takes a leaf out of the tree only when its      *)
(* entry is not in the container and its cache file was empty before the   *)
(* pass; a leaf whose entry is in the container is in the tree after the   *)
(* pass, and the cache, prev. and compare. files it had are still there.   *)
C22_OnlyEmptiedAbsentLeavesRemoved ==
  [][Reloads =>
       \A k \in FileKeys :
         /\ (tree[k].present /\ ~tree'[k].present) =>
              (~IsBytes(container[k]) /\ current(fs, k) = Empty)
         /\ (tree[k].present /\ IsBytes(container[k])) =>
              /\ tree'[k].present
              /\ exists(fs, CachePath(k)) => exists(fs', CachePath(k))
              /\ exists(fs, getPrevFilePath(CachePath(k))) =>
                   exists(fs', getPrevFilePath(CachePath(k)))
              /\ compare(fs, k) # Absent => compare(fs', k) # Absent]_vars

(* C23 (as stated): when refresh() is called in a pass, no callback of     *)
(* _removeDeletedParts of that pass has still to run, so that none marks   *)
(* a node, writes or deletes a file or splices a node after it.            *)
C23_RefreshAfterDeletedParts ==
  [][/\ (last'.op = "reload" /\ last'.out = "refreshed") => callbacks' = <<>>
     /\ Len(callbacks') < Len(callbacks) => (tree' = tree /\ fs' = fs)]_vars

(* The file at path stats as a file and its read returns bytes. *)
readable(f, path) ==
  f[path] \notin {Absent, DirEntry, Unreadable}

(* C24: the detector returns true for a part exactly when its cache file   *)
(* and its prev. file both stat as files, both can be read and their bytes *)
(* differ; it returns false in every other case, a failed stat or read     *)
(* among them, and never throws.                                           *)
C24_ChangedIffBothReadableAndDifferent ==
  last.op = "fileHasBeenChangedFromOutside" =>
    /\ last.out \in {"true", "false"}
    /\ last.out = "true" <=>
         /\ readable(fs, CachePath(last.part))
         /\ readable(fs, getPrevFilePath(CachePath(last.part)))
         /\ current(fs, last.part) # previous(fs, last.part)

C24_Witness ==
  /\ last.op = "fileHasBeenChangedFromOutside"
  /\ last.out = "false"
  /\ current(fs, last.part) = DirEntry
  /\ readable(fs, getPrevFilePath(CachePath(last.part)))

(* C25: a reload whose read or decoding of the container fails changes     *)
(* nothing: this.zip stays the archive loaded before, no cache file is     *)
(* written or deleted, and no tree node is added, removed or re-marked.    *)
C25_FailedReadChangesNothing ==
  [][(last'.op = "reload" /\ last'.out = "unread") =>
       (zip' = zip /\ fs' = fs /\ tree' = tree)]_vars

C25_Witness ==
  /\ last.op = "reload"
  /\ last.out = "unread"
  /\ stale
  /\ zip # container
  /\ zip # EmptyZip
  /\ \E k \in FileKeys : container[k] = Absent /\ exists(fs, CachePath(k))

(* The container was written after the last read of it, the notification   *)
(* of that write has been delivered, and no call of the handler has yet to *)
(* read the container: the notification was dropped under locked.          *)
Dropped ==
  /\ watchers > 0
  /\ stale
  /\ pending = 0
  /\ \A i \in DOMAIN reloads : reloads[i].pc # "readFile"

(* Every leaf with an entry in the container has the materialized bytes of *)
(* that entry as its cache file.                                           *)
Reflects ==
  \A k \in Leaves(tree) :
    IsBytes(container[k]) => current(fs, k) = materialized(container[k])

(* C26 (as stated): when a write of the container has had its notification *)
(* dropped, then either the container is written again or the cache files  *)
(* of the leaves eventually hold the materialized bytes of the container.  *)
C26_DroppedChangeIsReconciled ==
  \A n \in 0..(MaxRewrites + 1) :
    [](Dropped /\ extMods = n => <>(Reflects \/ extMods # n))

(* C27 (as stated): locked is set only while a call of the handler that    *)
(* set it is in flight; once that call has ended, with or without an       *)
(* error, locked is reset.                                                 *)
C27_LockedOnlyInFlight ==
  locked => \E i \in DOMAIN reloads : reloads[i].lock

(* C28: a call of the save handler for a part whose cache file or whose    *)
(* prev. file is not there changes neither this.zip nor the container,     *)
(* creates or changes no cache file, and records no mtime.                 *)
C28_SaveWithoutPrevIsNoOp ==
  [][\A p \in FileKeys :
       (/\ Saves(p)
        /\ \/ fs'[CachePath(p)] = Absent
           \/ fs[getPrevFilePath(CachePath(p))] = Absent) =>
         /\ Ignored(p)
         /\ stale' = stale
         /\ tree' = tree]_vars

C28_Witness ==
  /\ last.op = "save"
  /\ last.out = "noprev"
  /\ saves = 2
  /\ exists(fs, CachePath(last.part))
  /\ ~exists(fs, getPrevFilePath(CachePath(last.part)))
  /\ container[last.part] = Absent
  /\ watchActions[last.part] = 0

====
